---- MODULE Spec2Model ----
(***************************************************************************)
(* Backtracking Sudoku solver of src/sudoku.py (class Solution).           *)
(* The recursion of Solution.search is unfolded into an explicit call      *)
(* stack; one action per step of the body of search.                       *)
(***************************************************************************)
EXTENDS Integers, Sequences, FiniteSets, TLC

\* ---------------------------------------------------------------- constants
SHAPE == 9
GRID == 3
EMPTY == "."
DIGITS == {ToString(num) : num \in 1..SHAPE}

Index == 0..(SHAPE - 1)
Cells == Index \X Index
Vals == DIGITS \cup {EMPTY}

\* ------------------------------------------------------------------- inputs
\* Number of cells of the completed grid whose input value varies.
MaxFree == 6

\* A completed grid: the solution of the example board of the module docstring.
SolvedRows ==
  << <<"5","3","4","6","7","8","9","1","2">>,
     <<"6","7","2","1","9","5","3","4","8">>,
     <<"1","9","8","3","4","2","5","6","7">>,
     <<"8","5","9","7","6","1","4","2","3">>,
     <<"4","2","6","8","5","3","7","9","1">>,
     <<"7","1","3","9","2","4","8","5","6">>,
     <<"9","6","1","5","3","7","2","8","4">>,
     <<"2","8","7","4","1","9","6","3","5">>,
     <<"3","4","5","2","8","6","1","7","9">> >>

\* The example board of the module docstring.
ClassicRows ==
  << <<"5","3",".",".","7",".",".",".",".">>,
     <<"6",".",".","1","9","5",".",".",".">>,
     <<".","9","8",".",".",".",".","6",".">>,
     <<"8",".",".",".","6",".",".",".","3">>,
     <<"4",".",".","8",".","3",".",".","1">>,
     <<"7",".",".",".","2",".",".",".","6">>,
     <<".","6",".",".",".",".","2","8",".">>,
     <<".",".",".","4","1","9",".",".","5">>,
     <<".",".",".",".","8",".",".","7","9">> >>

FromRows(rows) == [cell \in Cells |-> rows[cell[1] + 1][cell[2] + 1]]

\* The cells whose input value varies, in the order they are freed: the cells of
\* rows 0 to 2 that hold "1" or "6" in the completed grid (exchanging the two
\* digits there gives a second completed grid), then cells of the rows below.
FreeCells ==
  << <<0, 3>>, <<0, 7>>, <<1, 0>>, <<1, 3>>, <<2, 0>>, <<2, 7>>, <<3, 4>>, <<3, 5>> >>

Free == {FreeCells[i] : i \in 1..MaxFree}

\* What an input may hold in a free cell.
FreeVals == {EMPTY, "1", "6"}

\* Number of rotations of the ascending and of the descending digit order that the
\* example board is searched with.
MaxRot == 0

Ascending == [i \in 1..SHAPE |-> ToString(i)]

Descending == [i \in 1..SHAPE |-> ToString(SHAPE + 1 - i)]

Rotate(seq, k) == [i \in 1..Len(seq) |-> seq[((i - 1 + k) % Len(seq)) + 1]]

Orders ==
  {Rotate(Ascending, k) : k \in 0..MaxRot} \cup {Rotate(Descending, k) : k \in 0..MaxRot}

InputBoards ==
  {[cell \in Cells |-> IF cell \in Free THEN f[cell] ELSE FromRows(SolvedRows)[cell]] :
     f \in [Free -> FreeVals]}

\* ------------------------------------------------------------------ helpers
get_kth_row(b, k) == [i \in 1..SHAPE |-> b[<<k, i - 1>>]]

\* Variant: row k is returned in place of column k.
get_kth_col_as_row(b, k) == [i \in 1..SHAPE |-> b[<<k, i - 1>>]]

get_kth_col(b, k) == [i \in 1..SHAPE |-> b[<<i - 1, k>>]]

BoxCells(row, col) ==
  {<<r, c>> : r \in row..(row + GRID - 1), c \in col..(col + GRID - 1)}

\* Variant: the column of the box corner is computed from the row.
get_grid_at_row_col_from_row(b, row, col) ==
  LET row0 == (row \div GRID) * GRID
      col0 == (row \div GRID) * GRID
  IN  {b[cell] : cell \in BoxCells(row0, col0)}

get_grid_at_row_col(b, row, col) ==
  LET row0 == (row \div GRID) * GRID
      col0 == (col \div GRID) * GRID
  IN  {b[cell] : cell \in BoxCells(row0, col0)}

SetOf(seq) == {seq[i] : i \in DOMAIN seq}

\* The rows, columns and sub-boxes are only compared as sets by is_valid_state.
get_rows(b) == {{b[<<i, col>>] : col \in Index} : i \in Index}

get_cols(b) == {{b[<<row, col>>] : row \in Index} : col \in Index}

get_grids(b) ==
  {{b[cell] : cell \in BoxCells(row * GRID, col * GRID)} :
     row \in 0..(SHAPE \div GRID - 1), col \in 0..(SHAPE \div GRID - 1)}

is_valid_state(b) ==
  /\ \A row \in get_rows(b) : row = DIGITS
  /\ \A col \in get_cols(b) : col = DIGITS
  /\ \A grid \in get_grids(b) : grid = DIGITS

\* Variant: the digits of the row are not removed.
get_candidates_no_row(b, row, col) ==
  LET used_digits ==
        (SetOf(get_kth_col(b, col)) \cup get_grid_at_row_col(b, row, col)) \ {EMPTY}
  IN  DIGITS \ used_digits

get_candidates(b, row, col) ==
  LET used_digits ==
        (SetOf(get_kth_row(b, row)) \cup SetOf(get_kth_col(b, col))
           \cup get_grid_at_row_col(b, row, col)) \ {EMPTY}
  IN  DIGITS \ used_digits

\* The cells holding EMPTY, and the first of them in row-major order.
EmptyCells(b) == {cell \in Cells : b[cell] = EMPTY}

RowMajor(cell) == cell[1] * SHAPE + cell[2]

\* Variant: the scan runs from the last cell to the first.
FirstEmpty_reversed(b) ==
  CHOOSE cell \in EmptyCells(b) :
    \A other \in EmptyCells(b) : RowMajor(cell) >= RowMajor(other)

\* Variant: the scan stops at the first cell that is not EMPTY.
FirstEmpty_negated(b) ==
  CHOOSE cell \in Cells \ EmptyCells(b) :
    \A other \in Cells \ EmptyCells(b) : RowMajor(cell) <= RowMajor(other)

FirstEmpty(b) ==
  CHOOSE cell \in EmptyCells(b) :
    \A other \in EmptyCells(b) : RowMajor(cell) <= RowMajor(other)

\* ---------------------------------------------------------------- the state
VARIABLES
  board,   \* the grid, mutated in place
  input,   \* the grid as handed to the top-level call (never assigned)
  stack,   \* the active calls of search, outermost first
  ret,     \* the value the last finished call returned, "none" while running
  order    \* the iteration order of the candidate sets; <<>> leaves it open

vars == <<board, input, stack, ret, order>>

Top == stack[Len(stack)]

Pop == SubSeq(stack, 1, Len(stack) - 1)

Frame(b) == [pc |-> "enter", cell |-> <<0, 0>>, todo |-> {}, entry |-> b]

SetTop(f) == [stack EXCEPT ![Len(stack)] = f]

Start(b, o) ==
  /\ order = o
  /\ board = b
  /\ input = b
  /\ stack = <<Frame(b)>>
  /\ ret = "none"

\* The inputs built from the completed grid, searched in every candidate order.
InitFamily == \E b \in InputBoards : Start(b, <<>>)

\* The example board, searched in each of the orders of Orders.
InitClassic == \E o \in Orders : Start(FromRows(ClassicRows), o)

Init == InitFamily \/ InitClassic

\* ------------------------------------------------------------------ actions
Running == stack # <<>>

\* if self.is_valid_state(board): return True
SearchSolved ==
  /\ Running /\ Top.pc = "enter"
  /\ is_valid_state(board)
  /\ stack' = Pop
  /\ ret' = "true"
  /\ UNCHANGED <<board, input, order>>

\* Variant: a filled grid that is not valid is reported as a failure.
NoEmptyResult_false == "false"

\* What search returns when the scan finds no EMPTY cell.
NoEmptyResult == "true"

\* the scan finds no EMPTY cell: return True
SearchNoEmpty ==
  /\ Running /\ Top.pc = "enter"
  /\ ~is_valid_state(board)
  /\ EmptyCells(board) = {}
  /\ stack' = Pop
  /\ ret' = NoEmptyResult
  /\ UNCHANGED <<board, input, order>>

\* the scan stops at the first EMPTY cell and computes its candidates
SearchFindEmpty ==
  /\ Running /\ Top.pc = "enter"
  /\ ~is_valid_state(board)
  /\ EmptyCells(board) # {}
  /\ LET cell == FirstEmpty(board)
     IN  stack' = SetTop([Top EXCEPT !.pc = "loop", !.cell = cell,
                            !.todo = get_candidates(board, cell[1], cell[2])])
  /\ UNCHANGED <<board, input, ret, order>>

\* Variant: the loop does not advance.
Rest_keep(todo, candidate) == todo

Rest(todo, candidate) == todo \ {candidate}

Place(b, cell, candidate) == [b EXCEPT ![cell] = candidate]

\* The candidates the loop may yield next: any of the set when the iteration
\* order is open, the first of the set in the iteration order otherwise.
NextCandidates(todo) ==
  IF order = <<>> THEN todo
  ELSE {order[i] : i \in {j \in DOMAIN order :
                            /\ order[j] \in todo
                            /\ \A k \in 1..(j - 1) : order[k] \notin todo}}

\* the loop takes a candidate, writes it and recurses
Guess ==
  /\ Running /\ Top.pc = "loop"
  /\ \E candidate \in NextCandidates(Top.todo) :
       LET b == Place(board, Top.cell, candidate)
       IN  /\ board' = b
           /\ stack' = Append(SetTop([Top EXCEPT !.pc = "wait",
                                        !.todo = Rest(Top.todo, candidate)]),
                              Frame(b))
  /\ UNCHANGED <<input, ret, order>>

\* exhausted all candidates: return False
Exhausted ==
  /\ Running /\ Top.pc = "loop"
  /\ Top.todo = {}
  /\ stack' = Pop
  /\ ret' = "false"
  /\ UNCHANGED <<board, input, order>>

\* is_solved is true: return True
ReturnTrue ==
  /\ Running /\ Top.pc = "wait"
  /\ ret = "true"
  /\ stack' = Pop
  /\ UNCHANGED <<board, input, ret, order>>

\* Variant: the guess is not undone.
Unplace_keep(b, cell) == b

Unplace(b, cell) == [b EXCEPT ![cell] = EMPTY]

\* is_solved is false: undo the guess and go on with the loop
Undo ==
  /\ Running /\ Top.pc = "wait"
  /\ ret = "false"
  /\ board' = Unplace(board, Top.cell)
  /\ stack' = SetTop([Top EXCEPT !.pc = "loop"])
  /\ ret' = "none"
  /\ UNCHANGED <<input, order>>

Next ==
  \/ SearchSolved
  \/ SearchNoEmpty
  \/ SearchFindEmpty
  \/ Guess
  \/ Exhausted
  \/ ReturnTrue
  \/ Undo

Spec == Init /\ [][Next]_vars

\* The program is sequential: a call that can take a step takes it.
FairSpec == Spec /\ WF_vars(Next)

Done == stack = <<>>

\* ------------------------------------------------- vocabulary of the claims
RowUnit(r) == {<<r, c>> : c \in Index}

ColUnit(c) == {<<r, c>> : r \in Index}

BoxUnit(i, j) ==
  {<<r, c>> : r \in (i * GRID)..(i * GRID + GRID - 1),
              c \in (j * GRID)..(j * GRID + GRID - 1)}

Boxes == 0..(SHAPE \div GRID - 1)

Units ==
  {RowUnit(r) : r \in Index} \cup {ColUnit(c) : c \in Index}
    \cup {BoxUnit(i, j) : i \in Boxes, j \in Boxes}

\* No row, column or box holds the same digit twice.
NoDup(b) ==
  \A u \in Units :
    Cardinality({b[cell] : cell \in u} \ {EMPTY})
      = Cardinality({cell \in u : b[cell] # EMPTY})

\* Every row, column and box is the full digit set.
Complete(b) == \A u \in Units : {b[cell] : cell \in u} = DIGITS

\* g assigns digits to the EMPTY cells of b and keeps its other cells.
Fill(b, f) == [cell \in Cells |-> IF b[cell] = EMPTY THEN f[cell] ELSE b[cell]]

\* Some assignment of digits to the EMPTY cells of b makes every unit the digit
\* set (the definition, by enumeration of the assignments).
HasCompletionEnum(b) == \E f \in [EmptyCells(b) -> DIGITS] : Complete(Fill(b, f))

Peers(cell) == UNION {u \in Units : cell \in u} \ {cell}

\* The same, computed cell by cell: a grid without EMPTY cell has a completion
\* when it is complete; another has one when some EMPTY cell of it takes some
\* digit that none of the cell's units holds and the grid so filled has one.
RECURSIVE HasCompletion(_)
HasCompletion(b) ==
  IF EmptyCells(b) = {} THEN Complete(b)
  ELSE LET cell == CHOOSE c \in EmptyCells(b) : TRUE
       IN  \E d \in DIGITS :
             /\ \A p \in Peers(cell) : b[p] # d
             /\ HasCompletion([b EXCEPT ![cell] = d])

\* cell is the first EMPTY cell of b in row-major order.
IsFirstEmpty(b, cell) ==
  /\ b[cell] = EMPTY
  /\ \A other \in Cells : RowMajor(other) < RowMajor(cell) => b[other] # EMPTY

\* The search of b starts with a guess: its first EMPTY cell has a candidate.
StartsWithGuess(b) ==
  \E cell \in Cells :
    /\ IsFirstEmpty(b, cell)
    /\ \E d \in DIGITS : \A p \in Peers(cell) : b[p] # d

Changed == {cell \in Cells : board[cell] # input[cell]}

\* The cells holding the guess of an active call that has placed a candidate.
LiveGuesses == {stack[i].cell : i \in {j \in DOMAIN stack : stack[j].pc = "wait"}}

Waiting == {j \in DOMAIN stack : stack[j].pc = "wait"}

Classic == FromRows(ClassicRows)

\* ------------------------------------------------------------------- claims
\* C1: for an input without a repeated digit in any unit, the top-level call
\* returns true exactly when the input has a valid completion, and false exactly
\* when it has none, whatever the order of the candidates.
C1_TrueIffCompletion ==
  (Done /\ NoDup(input)) =>
    /\ (ret = "true") <=> HasCompletion(input)
    /\ Cardinality(EmptyCells(input)) <= 4 =>
         ((ret = "true") <=> HasCompletionEnum(input))

\* An input without repeated digit and without completion has been searched to
\* the end, through at least one guess that failed.
C1_Witness ==
  /\ Done /\ NoDup(input) /\ ret = "false"
  /\ StartsWithGuess(input)

\* C2: for an input without a repeated digit, when the top-level call returns
\* true, is_valid_state holds on the grid it leaves: every unit is the digit set.
C2_TrueIsValid ==
  (Done /\ NoDup(input) /\ ret = "true") => (is_valid_state(board) /\ Complete(board))

C2_Witness ==
  /\ Done /\ NoDup(input) /\ ret = "true"
  /\ Cardinality(EmptyCells(input)) >= 2
  /\ is_valid_state(board)

\* C3: for an input in which some unit holds the same digit twice, the top-level
\* call returns false.
C3_DupReturnsFalse == (Done /\ ~NoDup(input)) => ret = "false"

\* C4: every call of search that returns false leaves the grid cell for cell as
\* it was when that call was entered, at any depth; after a top-level false the
\* grid is the input.
C4_FalseRestoresGrid ==
  /\ []((Done /\ ret = "false") => board = input)
  /\ [][(Running /\ Len(stack') = Len(stack) - 1 /\ ret' = "false")
          => board' = Top.entry]_vars

\* A call at depth four or more has returned false after it had candidates to
\* guess with, all of which failed and were undone.
C4_Witness ==
  /\ Len(stack) >= 3 /\ ret = "false"
  /\ Top.pc = "wait"
  /\ StartsWithGuess(board)

\* C5: for every input the top-level call eventually returns; the depth of the
\* recursion never exceeds the number of EMPTY cells of the input plus one, and
\* each recursive call is entered on a grid with one EMPTY cell fewer.
C5_Terminates ==
  /\ <>Done
  /\ [](Len(stack) <= Cardinality(EmptyCells(input)) + 1)
  /\ [][Len(stack') > Len(stack)
          => Cardinality(EmptyCells(board')) = Cardinality(EmptyCells(board)) - 1]_vars

C5_Witness ==
  /\ Done /\ ret = "false"
  /\ Cardinality(EmptyCells(input)) >= 3
  /\ StartsWithGuess(input)

\* C6: when the top-level call returns true on an input without repeated digit,
\* every cell that was not EMPTY in the input holds its input value and the grid
\* is complete; on the example board the call returns true and cell [0][2] is
\* "4".
C6_CompletionOfInput ==
  /\ (Done /\ ret = "true" /\ NoDup(input)) =>
       /\ \A cell \in Cells : input[cell] # EMPTY => board[cell] = input[cell]
       /\ Complete(board)
  /\ (Done /\ input = Classic) => (ret = "true" /\ board[<<0, 2>>] = "4")

C6_Witness ==
  /\ Done /\ input = Classic /\ ret = "true"
  /\ board = FromRows(SolvedRows)

\* C7: for every grid without EMPTY cell search returns true and writes no cell,
\* whether or not is_valid_state holds on it.
C7_FullReturnsTrue ==
  EmptyCells(input) = {} =>
    /\ board = input
    /\ Len(stack) <= 1
    /\ Done => ret = "true"

C7_Witness ==
  /\ Done /\ EmptyCells(input) = {} /\ ~is_valid_state(input)
  /\ ret = "true" /\ board = input

\* C8: from an input without repeated digit every grid reached has no repeated
\* digit; every reached grid without EMPTY cell satisfies is_valid_state, and the
\* return of true for a filled grid that is not valid is never taken.
C8_NoDupPreserved ==
  NoDup(input) =>
    /\ NoDup(board)
    /\ EmptyCells(board) = {} => is_valid_state(board)
    /\ ~ENABLED SearchNoEmpty

C8_Witness ==
  /\ NoDup(input) /\ Cardinality(EmptyCells(input)) >= 2
  /\ Running /\ Top.pc = "enter" /\ EmptyCells(board) = {}

\* C9 as stated: at every point of a search the cells that differ from the input
\* are exactly the cells holding the guesses of the calls on the call stack, each
\* of them EMPTY in the input, one per call that has placed a candidate. (Stated
\* here for the inputs without repeated digit, where it already fails.)
C9_ChangedAreLiveGuesses ==
  (Running /\ NoDup(input)) =>
    /\ Changed = LiveGuesses
    /\ Cardinality(LiveGuesses) = Cardinality(Waiting)
    /\ \A cell \in Changed : input[cell] = EMPTY

\* C9 as amended: the equality holds until a call has returned true; once one
\* has, the guesses of the calls that returned stay in the grid, so that the
\* changed cells contain the guesses of the calls still on the stack. At every
\* point every changed cell was EMPTY in the input and holds a digit, and the
\* calls that have placed a candidate hold distinct cells.
C9_ChangedAreGuesses ==
  /\ (Running /\ ret # "true") => Changed = LiveGuesses
  /\ LiveGuesses \subseteq Changed
  /\ Cardinality(LiveGuesses) = Cardinality(Waiting)
  /\ \A cell \in Changed : input[cell] = EMPTY /\ board[cell] \in DIGITS

\* Three calls hold a guess each, after a guess of the innermost was undone.
C9_Witness ==
  /\ Running /\ ret # "true"
  /\ Cardinality(Waiting) >= 3
  /\ Top.pc = "loop" /\ Top.todo # get_candidates(board, Top.cell[1], Top.cell[2])
  /\ Changed = LiveGuesses

\* C10: every call writes only the first EMPTY cell, in row-major order, of the
\* grid it was entered on; when the candidates of that cell are exhausted it
\* returns false with the later EMPTY cells untouched; once a call has returned
\* true every caller returns true and no cell is written any more.
C10_BranchOnFirstEmpty ==
  /\ [](\A i \in DOMAIN stack :
          stack[i].pc # "enter" => IsFirstEmpty(stack[i].entry, stack[i].cell))
  /\ [][/\ board' # board =>
             /\ Running /\ Top.pc # "enter"
             /\ \A cell \in Cells : cell # Top.cell => board'[cell] = board[cell]
        /\ (Running /\ Len(stack') = Len(stack) - 1 /\ ret' = "false") =>
             /\ Top.pc = "loop" /\ Top.todo = {}
             /\ \A cell \in Cells : cell # Top.cell => board'[cell] = Top.entry[cell]
        /\ ret = "true" => (ret' = "true" /\ board' = board /\ Len(stack') < Len(stack))
       ]_vars

\* A call has returned false while EMPTY cells after its own were never tried.
C10_Witness ==
  /\ Running /\ ret = "false" /\ Top.pc = "wait"
  /\ Cardinality(EmptyCells(board)) >= 3
  /\ StartsWithGuess(board)

====
